---- MODULE Spec2Model ----
(***************************************************************************)
(* microannotate: replay of a Mercurial history into a git repository      *)
(* whose files hold one token per line (generator.py), the trailer that    *)
(* links the two histories (utils.py) and the viewer that maps blame back. *)
(*                                                                         *)
(* Byte strings and text are sequences of one-character strings, so that   *)
(* the regular expressions and string operations of the code are computed  *)
(* character by character.                                                 *)
(***************************************************************************)
EXTENDS Integers, Sequences, FiniteSets, TLC

(***************************************************************************)
(* Characters                                                              *)
(***************************************************************************)
LowerLetters ==
  {"a","b","c","d","e","f","g","h","i","j","k","l","m","n","o","p","q","r","s","t","u","v","w","x","y","z"}

UpperLetters ==
  {"A","B","C","D","E","F","G","H","I","J","K","L","M","N","O","P","Q","R","S","T","U","V","W","X","Y","Z"}

Digits == {"0","1","2","3","4","5","6","7","8","9"}

\* [0-9a-f] of ORIGINAL_COMMIT_REGEX
HexChars == Digits \cup {"a","b","c","d","e","f"}

\* \w of a bytes pattern: ASCII letters, digits and underscore
WordChars == LowerLetters \cup UpperLetters \cup Digits \cup {"_"}

\* \s of a bytes pattern, as far as a TLA+ string can spell it (no \v)
WhitespaceChars == {" ", "\t", "\n", "\r", "\f"}

POSSIBLE_TOKENS ==
  {"{", "}", "[", "]", "\"", "'", "(", ")", "\\", "*", "#", "/", ".", "-",
   "<", ">", "&", "!", "+", "%", "^", "~", "?", ":", "=", "|", ";"}

\* bytes.lower() / str.lower() on one ASCII character
LowerChar(c) ==
  CASE c = "A" -> "a" [] c = "B" -> "b" [] c = "C" -> "c" [] c = "D" -> "d"
    [] c = "E" -> "e" [] c = "F" -> "f" [] c = "G" -> "g" [] c = "H" -> "h"
    [] c = "I" -> "i" [] c = "J" -> "j" [] c = "K" -> "k" [] c = "L" -> "l"
    [] c = "M" -> "m" [] c = "N" -> "n" [] c = "O" -> "o" [] c = "P" -> "p"
    [] c = "Q" -> "q" [] c = "R" -> "r" [] c = "S" -> "s" [] c = "T" -> "t"
    [] c = "U" -> "u" [] c = "V" -> "v" [] c = "W" -> "w" [] c = "X" -> "x"
    [] c = "Y" -> "y" [] c = "Z" -> "z" [] OTHER -> c

Lower(s) == [k \in 1..Len(s) |-> LowerChar(s[k])]

\* s[i:j] of Python with 1-based inclusive bounds: the characters i..j
Slice(s, i, j) == IF j < i THEN << >> ELSE SubSeq(s, i, j)

EndsWith(s, suffix) ==
  /\ Len(suffix) <= Len(s)
  /\ Slice(s, Len(s) - Len(suffix) + 1, Len(s)) = suffix

\* whether pat occurs in s starting at position i
MatchAt(s, pat, i) ==
  /\ i >= 1
  /\ i + Len(pat) - 1 <= Len(s)
  /\ \A k \in 1..Len(pat) : s[i + k - 1] = pat[k]

(***************************************************************************)
(* is_binary                                                               *)
(***************************************************************************)
\* a Python value with its type: a str and a bytes are never equal, whatever
\* their characters
Str(s) == [type |-> "str", value |-> s]

Bytes(s) == [type |-> "bytes", value |-> s]

\* the extensions are str literals
BINARY_EXTENSIONS ==
  {Str(e) : e \in {
    <<".","p","n","g">>, <<".","j","p","g">>, <<".","j","p","e","g">>, <<".","g","i","f">>,
    <<".","b","m","p">>, <<".","i","c","o">>, <<".","i","c","n","s">>, <<".","p","s","d">>,
    <<".","t","i","f","f">>, <<".","t","t","f">>, <<".","b","c","m","a","p">>,
    <<".","w","e","b","p">>, <<".","z","i","p">>, <<".","g","z">>, <<".","b","z","2">>,
    <<".","t","a","r">>, <<".","x","p","i">>, <<".","j","a","r">>, <<".","m","p","4">>,
    <<".","w","e","b","m">>, <<".","o","g","v">>, <<".","a","v","i">>, <<".","m","o","v">>,
    <<".","m","4","s">>, <<".","m","g","i","f">>, <<".","m","p","3">>, <<".","o","g","g">>,
    <<".","w","a","v">>, <<".","f","l","a","c">>, <<".","o","p","u","s">>, <<".","e","x","e">>,
    <<".","d","l","l">>, <<".","s","o">>, <<".","c","l","a","s","s">>,
    <<".","b","i","n","j","s">>, <<".","p","d","f">>, <<".","d","o","c">>, <<".","o","t","f">>,
    <<".","s","q","l","i","t","e">>, <<".","w","o","f","f">>, <<".","w","o","f","f","2">>,
    <<".","c","r","t">>
  }}

\* the greatest position of character c in s, 0 when there is none
LastIndexOf(s, c) ==
  IF \E k \in 1..Len(s) : s[k] = c
    THEN CHOOSE k \in 1..Len(s) : s[k] = c /\ \A m \in (k+1)..Len(s) : s[m] # c
    ELSE 0

\* os.path.splitext(path)[1]: from the last dot of the last path component,
\* unless that component has only dots before it
splitext(path) ==
  LET sep == LastIndexOf(path, "/")
      dot == LastIndexOf(path, ".")
  IN  IF dot > sep /\ \E k \in (sep+1)..(dot-1) : path[k] # "."
        THEN Slice(path, dot, Len(path))
        ELSE << >>

\* ext.lower() in BINARY_EXTENSIONS: the extension has the type of the path
is_binary(path) ==
  [type |-> path.type, value |-> Lower(splitext(path.value))] \in BINARY_EXTENSIONS

(***************************************************************************)
(* The tokenizer: SPLIT_WORD_REGEX and                                     *)
(* SPLIT_WORD_STARTING_WHITESPACES_REGEX applied with finditer             *)
(***************************************************************************)
\* the end of the maximal run of characters of set S that starts at i (i-1
\* when content[i] is not in S)
RECURSIVE RunEnd(_, _, _)
RunEnd(content, i, S) ==
  IF i <= Len(content) /\ content[i] \in S
    THEN RunEnd(content, i + 1, S)
    ELSE i - 1

\* ^ under re.MULTILINE: the start of the content or just after a newline
AtLineStart(content, i) == i = 1 \/ content[i - 1] = "\n"

\* the end of the match of ^[ \t]+(?=\S) at i, or 0: the run is greedy, and a
\* shorter run is followed by a space or tab, so only the maximal run can match
IndentMatchEnd(content, i) ==
  LET e == RunEnd(content, i, {" ", "\t"})
  IN  IF /\ AtLineStart(content, i)
         /\ e >= i
         /\ e + 1 <= Len(content)
         /\ content[e + 1] \notin WhitespaceChars
        THEN e
        ELSE 0

\* a pattern with \w in place of \w+: every word character is a match
MatchEnd_single_word_char(content, i, indentation) ==
  IF indentation /\ IndentMatchEnd(content, i) > 0
    THEN IndentMatchEnd(content, i)
  ELSE IF content[i] \in WordChars \cup POSSIBLE_TOKENS
    THEN i
  ELSE 0

\* the end of the match of the pattern at position i, or 0 when it does not
\* match there; the alternatives are tried in the order of the regex
MatchEnd(content, i, indentation) ==
  IF indentation /\ IndentMatchEnd(content, i) > 0
    THEN IndentMatchEnd(content, i)
  ELSE IF content[i] \in WordChars
    THEN RunEnd(content, i, WordChars)
  ELSE IF content[i] \in POSSIBLE_TOKENS
    THEN i
  ELSE 0

\* pattern.finditer(content): the matches as <<first, last>> positions
RECURSIVE finditer(_, _, _)
finditer(content, i, indentation) ==
  IF i > Len(content) THEN << >>
  ELSE LET e == MatchEnd(content, i, indentation)
       IN  IF e = 0
             THEN finditer(content, i + 1, indentation)
             ELSE << <<i, e>> >> \o finditer(content, e + 1, indentation)

\* the lines written by f.writelines(word.group(0) + b"\n" ...)
RECURSIVE JoinLines(_, _)
JoinLines(content, matches) ==
  IF matches = << >> THEN << >>
  ELSE Slice(content, matches[1][1], matches[1][2]) \o <<"\n">>
         \o JoinLines(content, Tail(matches))

PY_SUFFIX == <<".", "p", "y">>

\* a writelines that is handed the matches last one first
tokenize_last_match_first(path, content) ==
  LET m == finditer(content, 1, EndsWith(path, PY_SUFFIX))
  IN  JoinLines(content, [k \in 1..Len(m) |-> m[Len(m) + 1 - k]])

\* the bytes write_file writes for a path when tokenize is enabled
tokenize(path, content) ==
  JoinLines(content, finditer(content, 1, EndsWith(path, PY_SUFFIX)))

(***************************************************************************)
(* The original-commit trailer                                             *)
(***************************************************************************)
HashLen == 40

MARKER ==
  <<"U","l","t","r","a","B","l","a","m","e"," ","o","r","i","g","i","n","a","l"," ",
    "c","o","m","m","i","t",":"," ">>

\* whether ORIGINAL_COMMIT_REGEX matches at position i of message
TrailerMatchAt(message, i) ==
  /\ MatchAt(message, MARKER, i)
  /\ i + Len(MARKER) + HashLen - 1 <= Len(message)
  /\ \A k \in 1..HashLen : message[i + Len(MARKER) + k - 1] \in HexChars

NoMatch == <<"no match">>

\* ORIGINAL_COMMIT_REGEX.search(message): group 1 of the leftmost match, or
\* NoMatch (Python's None)
regex_search(message) ==
  IF \E i \in 1..Len(message) : TrailerMatchAt(message, i)
    THEN LET i == CHOOSE i \in 1..Len(message) :
                    /\ TrailerMatchAt(message, i)
                    /\ \A j \in 1..(i-1) : ~TrailerMatchAt(message, j)
         IN  Slice(message, i + Len(MARKER), i + Len(MARKER) + HashLen - 1)
    ELSE NoMatch

\* commit.desc.replace("@", "")
RECURSIVE remove_at(_)
remove_at(desc) ==
  IF desc = << >> THEN << >>
  ELSE IF Head(desc) = "@" THEN remove_at(Tail(desc))
  ELSE <<Head(desc)>> \o remove_at(Tail(desc))

\* a convert() that keeps the @ characters of the description
commit_message_keeping_at(desc, node) ==
  desc \o <<"\n", "\n">> \o MARKER \o node

\* f"{desc}\n\nUltraBlame original commit: {commit.node}"
commit_message(desc, node) ==
  remove_at(desc) \o <<"\n", "\n">> \o MARKER \o node

(***************************************************************************)
(* The comment-stripping service (rust-code-analysis-web), an external     *)
(* collaborator: POST /comment answers 200 with the rewritten bytes, 204,  *)
(* 404, another status, or the connection fails.                           *)
(***************************************************************************)
\* the first position >= i where pat occurs in s, 0 when there is none
FindFrom(s, pat, i) ==
  IF \E k \in i..Len(s) : MatchAt(s, pat, k)
    THEN CHOOSE k \in i..Len(s) :
           MatchAt(s, pat, k) /\ \A m \in i..(k-1) : ~MatchAt(s, pat, m)
    ELSE 0

\* the body of a 200 answer: the content without its /* ... */ blocks
RECURSIVE service_comment(_)
service_comment(content) ==
  LET open == FindFrom(content, <<"/", "*">>, 1)
      close == IF open = 0 THEN 0 ELSE FindFrom(content, <<"*", "/">>, open + 2)
  IN  IF open = 0 \/ close = 0 THEN content
      ELSE Slice(content, 1, open - 1)
             \o service_comment(Slice(content, close + 2, Len(content)))

ConnectionError == "ClientConnectionError"

\* what the service can answer to a POST of content
Responses(content) ==
  {[status |-> "200", text |-> service_comment(content)],
   [status |-> "204", text |-> << >>],
   [status |-> "404", text |-> << >>],
   [status |-> "500", text |-> <<"e">>],
   [status |-> ConnectionError, text |-> << >>]}

\* a remove_comments that takes the body of the answer whatever the status
remove_comments_any_status(content, r) == r.text

\* Generator.remove_comments, given the answer r of the service
remove_comments(content, r) ==
  IF r.status = "200" THEN r.text ELSE content

(***************************************************************************)
(* The source (Mercurial) repository                                       *)
(*                                                                         *)
(* A history is a sequence of commits, commit of revision number r at      *)
(* index r+1: first and second parent (-1: none), named branch,            *)
(* description, the touched paths with their content at the commit         *)
(* (ABSENT: removed by it) and the copy records (source, target).          *)
(***************************************************************************)
ABSENT == <<"no such file in rev">>

HexSeq == <<"1","2","3","4","5","6","7","8","9","a","b","c","d","e","f">>

\* the 40-character identifier of revision number r
Node(r) == [k \in 1..HashLen |-> IF k = 1 THEN HexSeq[r + 1] ELSE "0"]

\* {p1node} of a root commit
NULLID == [k \in 1..HashLen |-> "0"]

PathA == <<"a", ".", "c">>
PathB == <<"b", ".", "p", "y">>
PathD == <<"d", ".", "c">>
PathE == <<"e", ".", "p", "y">>
PathI == <<"i", ".", "P", "N", "G">>

Text1 == <<"x", " ", "/", "*", "c", "*", "/", ";">>
Text2 == <<" ", "y", "\n">>
Text3 == <<"x", "=", "1">>

DescPlain == <<"f", "i", "x">>
DescAt == <<"r", "=", "@", "m", "e">>
\* a description that quotes the trailer of the commit made from revision 0
DescQuote == <<"s", "e", "e", " ">> \o MARKER \o Node(0)

NoChange == [p \in {} |-> << >>]

Put(f, k, v) == [q \in DOMAIN f \cup {k} |-> IF q = k THEN v ELSE f[q]]

Del(f, k) == [q \in DOMAIN f \ {k} |-> f[q]]

One(k, v) == [q \in {k} |-> v]

Two(k1, v1, k2, v2) == [q \in {k1, k2} |-> IF q = k1 THEN v1 ELSE v2]

HgCommit(p1, p2, branch, desc, changes, copies) ==
  [p1 |-> p1, p2 |-> p2, branch |-> branch, desc |-> desc,
   changes |-> changes, copies |-> copies]

Default == "default"

Other == "other"

\* add, modify and add, remove: one line of development
HistLinear ==
  << HgCommit(-1, -1, Default, DescPlain, One(PathA, Text1), {}),
     HgCommit(0, -1, Default, DescAt, Two(PathA, Text3, PathB, Text2), {}),
     HgCommit(1, -1, Default, DescPlain, One(PathB, ABSENT), {}) >>

\* a copy, then a rename together with the removal of the copy
HistCopy ==
  << HgCommit(-1, -1, Default, DescPlain, Two(PathA, Text1, PathB, Text2), {}),
     HgCommit(0, -1, Default, DescPlain, One(PathD, Text1), {<<PathA, PathD>>}),
     HgCommit(1, -1, Default, DescPlain,
              Put(Two(PathB, ABSENT, PathE, Text2), PathD, ABSENT),
              {<<PathB, PathE>>}) >>

\* a binary file beside a text file
HistBinary ==
  << HgCommit(-1, -1, Default, DescPlain, Two(PathI, Text3, PathA, Text3), {}),
     HgCommit(0, -1, Default, DescPlain, One(PathI, Text1), {}) >>

\* two heads on one named branch, then their merge and a commit on top of it
HistMerge ==
  << HgCommit(-1, -1, Default, DescPlain, One(PathA, Text3), {}),
     HgCommit(0, -1, Default, DescPlain, One(PathB, Text2), {}),
     HgCommit(0, -1, Default, DescPlain, One(PathA, Text1), {}),
     HgCommit(1, 2, Default, DescPlain, NoChange, {}) >>

\* a commit of another named branch numbered between commits of the tip's
HistBranch ==
  << HgCommit(-1, -1, Default, DescPlain, One(PathA, Text3), {}),
     HgCommit(0, -1, Other, DescPlain, One(PathB, Text2), {}),
     HgCommit(0, -1, Default, DescPlain, One(PathA, Text1), {}),
     HgCommit(2, -1, Default, DescPlain, One(PathD, Text3), {}) >>

\* a description that quotes an original-commit trailer
HistQuote ==
  << HgCommit(-1, -1, Default, DescPlain, One(PathA, Text3), {}),
     HgCommit(0, -1, Default, DescQuote, One(PathA, Text1), {}),
     HgCommit(1, -1, Default, DescPlain, One(PathB, Text2), {}) >>

\* a commit that touches no file (the closing of a branch, a change of flags)
HistEmpty ==
  << HgCommit(-1, -1, Default, DescPlain, One(PathA, Text3), {}),
     HgCommit(0, -1, Default, DescAt, NoChange, {}) >>

Histories ==
  {HistLinear, HistCopy, HistBinary, HistMerge, HistBranch, HistQuote, HistEmpty}

Revs(h) == 0..(Len(h) - 1)

Tip(h) == Len(h) - 1

\* the revision number of an identifier, -1 when the repository has none such
RevOfNode(h, node) ==
  IF \E r \in Revs(h) : Node(r) = node
    THEN CHOOSE r \in Revs(h) : Node(r) = node
    ELSE -1

ParentNode(h, r) == IF h[r + 1].p1 = -1 THEN NULLID ELSE Node(h[r + 1].p1)

\* revset children(r)
Children(h, r) == {c \in Revs(h) : h[c + 1].p1 = r \/ h[c + 1].p2 = r}

IsMerge(h, r) == h[r + 1].p2 # -1

SetMin(S) == CHOOSE m \in S : \A q \in S : m <= q

\* revset m:n, ascending when m <= n and descending otherwise
RangeSeq(m, n) ==
  IF m <= n THEN [k \in 1..(n - m + 1) |-> m + k - 1]
  ELSE [k \in 1..(m - n + 1) |-> m - k + 1]

RECURSIVE FilterSeq(_, _)
FilterSeq(s, S) ==
  IF s = << >> THEN << >>
  ELSE IF Head(s) \in S THEN <<Head(s)>> \o FilterSeq(Tail(s), S)
  ELSE FilterSeq(Tail(s), S)

\* the revisions a rev_start denotes: a revision number given by the caller,
\* or children(<identifier>) set by the resume step
StartSet(h, rev_start) ==
  IF rev_start.kind = "rev" THEN {rev_start.rev} \cap Revs(h)
  ELSE Children(h, RevOfNode(h, rev_start.node))

UnknownRevision(h, rev_start) ==
  \/ rev_start.kind = "rev" /\ rev_start.rev \notin Revs(h)
  \/ rev_start.kind = "children" /\ RevOfNode(h, rev_start.node) = -1

\* get_revs: hg log --no-merges --branch tip -r "rev_start:rev_end", one
\* identifier per line
get_revs(h, rev_start, rev_end) ==
  LET m == StartSet(h, rev_start)
      keep == {r \in Revs(h) : ~IsMerge(h, r) /\ h[r + 1].branch = h[Tip(h) + 1].branch}
  IN  IF m = {} THEN << >>
      ELSE LET listed == FilterSeq(RangeSeq(SetMin(m), rev_end), keep)
           IN  [k \in 1..Len(listed) |-> Node(listed[k])]

\* the Commit objects of hg_log
MinedCommit(h, r) ==
  [node |-> Node(r), parents |-> <<ParentNode(h, r)>>, desc |-> h[r + 1].desc]

\* hg_log: hg log -r "revs[0]:revs[-1]"
hg_log(h, revs) ==
  LET range == RangeSeq(RevOfNode(h, revs[1]), RevOfNode(h, revs[Len(revs)]))
  IN  [k \in 1..Len(range) |-> MinedCommit(h, range[k])]

\* set_modified_files: {join(files,"|")} split at "|"; a commit that touches
\* no file yields the single empty path
set_modified_files(h, node) ==
  LET files == DOMAIN h[RevOfNode(h, node) + 1].changes
  IN  IF files = {} THEN {<< >>} ELSE files

\* hg cat path at the revision, for a path the commit touches
hg_cat(h, path, node) == h[RevOfNode(h, node) + 1].changes[path]

(***************************************************************************)
(* Bounds of the model                                                     *)
(***************************************************************************)
\* generate() is called at most MaxRuns times on the destination
MaxRuns == 2

\* the greatest limit a caller passes
MaxLimit == 2

\* at most MaxFailures backend errors are injected in one behaviour
MaxFailures == 1

\* CHUNK_SIZE of Generator.go, 256 in the code, scaled to the histories
CHUNK_SIZE == 2

\* the contents given to the tokenizer have at most MaxContentLen characters
MaxContentLen == 4

\* the original contents given to the viewer have at most MaxViewLen characters
MaxViewLen == 4

\* limit=None; a limit n is <<n>>
NoLimit == << >>

(***************************************************************************)
(* State                                                                   *)
(***************************************************************************)
VARIABLES
  hg,               \* the source repository (a history)
  repo_exists,      \* os.path.exists(repo_out_dir)
  gitlog,           \* the destination commits, oldest first; HEAD is the last
  origin,           \* for each destination commit, the source commit it was
                    \* created from (history variable)
  index_disk,       \* the destination index file
  index,            \* self.repo.index, the index in memory
  workdir,          \* the files of the destination work tree
  errors,           \* the lines of errors.txt
  pc,               \* where go() is
  gen,              \* the Generator's fields
  revs,             \* the listed revisions, after truncation to limit
  listed,           \* how many revisions get_revs returned
  all_commits_done, \* go()'s local
  mined,            \* results of executor.map(_hg_log, revs_groups), by chunk
  commits,          \* the mined commits, in replay order
  pos,              \* index in commits of the commit being converted
  tasks,            \* the write_file coroutines of the commit, by path
  ret,              \* what the last generate() returned
  runlog,           \* the arguments and outcome of the runs so far
  nfail,            \* backend errors injected so far
  warnings,         \* the warnings write_file logged for removals
  argv,             \* the options of the microannotate-generate command line
  kills,            \* how many runs were killed (history variable)
  service,          \* go()'s start-up of rust-code-analysis-web and its processes
  lookup,           \* utils.py: a call of a lookup function and its outcome
  tok_path,         \* tokenizer: the path of the file written
  tok_content,      \* tokenizer: the content to write
  tok_written,      \* tokenizer: the bytes written
  original_file_content, \* viewer.html: hg cat of the path at the original commit
  blame_output,     \* viewer.html: the lines of git blame --porcelain
  view_pc,          \* viewer.html: where html() is
  blame_i,          \* viewer.html: how many blame lines the loop has consumed
  start,            \* viewer.html: its local
  prev_blame_line,  \* viewer.html: its local
  current_line,     \* viewer.html: its local
  lines,            \* viewer.html: its local, line number -> fragments
  found,            \* viewer.html: the values of new_start so far (history variable)
  spans,            \* viewer.html: the slices of the original put in lines, each
                    \* with the blame line it went with (history variable)
  html_body         \* viewer.html: the fragments between <pre> and </pre>

vars ==
  <<hg, repo_exists, gitlog, origin, index_disk, index, workdir, errors, pc, gen, revs,
    listed, all_commits_done, mined, commits, pos, tasks, ret, runlog, nfail,
    warnings, kills, service, lookup, argv, tok_path, tok_content, tok_written, original_file_content,
    blame_output, view_pc, blame_i, start, prev_blame_line, current_line, lines,
    found, spans, html_body>>

tokVars == <<tok_path, tok_content, tok_written>>

viewVars ==
  <<original_file_content, blame_output, view_pc, blame_i, start, prev_blame_line,
    current_line, lines, found, spans, html_body>>

\* what the pipeline leaves alone
toolVars == <<argv, kills, service, lookup, tokVars, viewVars>>

srcVars == <<hg>>

destVars == <<repo_exists, gitlog, origin, index_disk, index, workdir>>

runVars == <<gen, revs, listed, all_commits_done, mined, commits, pos, tasks>>

NoGen ==
  [rev_start |-> [kind |-> "rev", rev |-> 0], rev_end |-> 0, limit |-> NoLimit,
   tokenize_enabled |-> TRUE, remove_comments_enabled |-> FALSE]

NoTasks == [p \in {} |-> [st |-> "done"]]

\* a write_file that has not written
NotWritten == <<"not written">>

\* Python's None where a BlameLine is expected
None == [commit |-> "None", context |-> << >>]

\* no command line: generate() is called as a library function
NoArgv == [remove_comments |-> FALSE, given |-> FALSE]

\* range(7) of the launch loop and of the probe loop of go()
MaxLaunches == 7

MaxProbes == 7

\* the service before go() starts it: proc = None, ready = False. launches and
\* probes count the iterations of the two loops, polls the probes of the run;
\* proc is the state of the process the local proc refers to and leaked the
\* number of running processes no variable refers to any more
NoService ==
  [phase |-> "launch", launches |-> 0, probes |-> 0, polls |-> 0,
   ready |-> FALSE, proc |-> "None", leaked |-> 0]

\* no call of a lookup function
NoLookup == [fn |-> "none", log |-> << >>, rev |-> 0, result |-> [kind |-> "none"]]

\* the pipeline before the first generate(): no destination repository
Fresh ==
  /\ repo_exists = FALSE
  /\ gitlog = << >>
  /\ origin = << >>
  /\ index_disk = NoChange
  /\ index = NoChange
  /\ workdir = NoChange
  /\ errors = << >>
  /\ pc = "idle"
  /\ gen = NoGen
  /\ revs = << >>
  /\ listed = 0
  /\ all_commits_done = TRUE
  /\ mined = << >>
  /\ commits = << >>
  /\ pos = 0
  /\ tasks = NoTasks
  /\ ret = "none"
  /\ runlog = << >>
  /\ nfail = 0
  /\ warnings = {}
  /\ kills = 0
  /\ service = NoService
  /\ lookup = NoLookup

TokIdle ==
  /\ tok_path = << >>
  /\ tok_content = << >>
  /\ tok_written = NotWritten

ViewIdle ==
  /\ original_file_content = << >>
  /\ blame_output = << >>
  /\ view_pc = "idle"
  /\ blame_i = 0
  /\ start = -1
  /\ prev_blame_line = None
  /\ current_line = 0
  /\ lines = << >>
  /\ found = << >>
  /\ spans = << >>
  /\ html_body = << >>

Init ==
  /\ hg \in Histories
  /\ Fresh
  /\ argv = NoArgv
  /\ TokIdle
  /\ ViewIdle

(***************************************************************************)
(* utils.py                                                                *)
(***************************************************************************)
\* get_original_hash(repo, rev) for a commit of the destination history (a
\* position in gitlog); NoMatch stands for the AttributeError of None.group
get_original_hash(log, d) == regex_search(log[d].message)

\* get_commit_mapping: the walk from the first commit to HEAD; a later commit
\* overwrites the entry of an earlier one with the same original identifier
transformed_to_original(log) ==
  [d \in 1..Len(log) |-> get_original_hash(log, d)]

original_to_transformed(log) ==
  [o \in {get_original_hash(log, d) : d \in 1..Len(log)} |->
     CHOOSE d \in 1..Len(log) :
       /\ get_original_hash(log, d) = o
       /\ \A e \in (d + 1)..Len(log) : get_original_hash(log, e) # o]

(***************************************************************************)
(* generate() and Generator.go                                             *)
(***************************************************************************)
\* generate(...): the Generator is built from the caller's arguments. The
\* caller passes rev_start=0 and, on one destination, the same transform flags
\* in every run
Generate(rev_end, limit, tok, rc) ==
  /\ pc = "idle"
  /\ Len(runlog) < MaxRuns
  /\ runlog # << >> =>
       tok = gen.tokenize_enabled /\ rc = gen.remove_comments_enabled
  /\ gen' = [rev_start |-> [kind |-> "rev", rev |-> 0], rev_end |-> rev_end,
             limit |-> limit, tokenize_enabled |-> tok,
             remove_comments_enabled |-> rc]
  /\ runlog' = Append(runlog, [rev_end |-> rev_end, limit |-> limit,
                               head |-> Len(gitlog), nerr |-> Len(errors),
                               nfail |-> nfail])
  /\ pc' = "open"
  /\ ret' = "running"
  /\ UNCHANGED <<srcVars, destVars, errors, revs, listed, all_commits_done,
                 mined, commits, pos, tasks, nfail, warnings, toolVars>>

\* Python values of the keyword slots of generate(): a bool is an int (True is
\* 1), None is neither
PyBool(b) == [type |-> "bool", value |-> IF b THEN 1 ELSE 0]

PyNone == [type |-> "NoneType", value |-> 0]

\* the parameters of generate() after repo_dir and repo_out_dir, in order
generate_params == <<"rev_start", "rev_end", "limit", "tokenize", "remove_comments">>

\* the binding of a call generate(repo_dir, repo_out_dir, *positional): the
\* arguments fill the parameters in order, the others take their defaults
generate_call(h, positional) ==
  [n \in {generate_params[k] : k \in 1..Len(generate_params)} |->
     LET k == CHOOSE k \in 1..Len(generate_params) : generate_params[k] = n
     IN  IF k <= Len(positional) THEN positional[k]
         ELSE CASE n = "rev_start" -> 0
                [] n = "rev_end" -> Tip(h)
                [] n = "limit" -> PyNone
                [] n = "tokenize" -> PyBool(TRUE)
                [] n = "remove_comments" -> PyBool(FALSE)]

\* self.limit as the model writes it: None, or the number the value counts as
\* in len(revs) > self.limit and revs[: self.limit]
limit_of(v) == IF v.type = "NoneType" THEN NoLimit ELSE <<v.value>>

\* the truth value of a flag
truth(v) == v.type # "NoneType" /\ v.value # 0

\* microannotate-generate SRC DST [--remove-comments]: argparse, then
\* generator.generate(repository_dir, repo_out_dir, args.rev_start,
\* args.rev_end, args.tokenize, args.remove_comments); --tokenize is a
\* store_true option whose default is True
Main(remove_comments_given) ==
  LET call == generate_call(hg, <<0, Tip(hg), PyBool(TRUE),
                                  PyBool(remove_comments_given)>>)
  IN  /\ pc = "idle"
      /\ Len(runlog) < MaxRuns
      /\ runlog # << >> =>
           /\ truth(call["tokenize"]) = gen.tokenize_enabled
           /\ truth(call["remove_comments"]) = gen.remove_comments_enabled
      /\ argv' = [remove_comments |-> remove_comments_given, given |-> TRUE]
      /\ gen' = [rev_start |-> [kind |-> "rev", rev |-> call["rev_start"]],
                 rev_end |-> call["rev_end"],
                 limit |-> limit_of(call["limit"]),
                 tokenize_enabled |-> truth(call["tokenize"]),
                 remove_comments_enabled |-> truth(call["remove_comments"])]
      /\ runlog' = Append(runlog, [rev_end |-> call["rev_end"],
                                   limit |-> limit_of(call["limit"]),
                                   head |-> Len(gitlog), nerr |-> Len(errors),
                                   nfail |-> nfail])
      /\ pc' = "open"
      /\ ret' = "running"
      /\ UNCHANGED <<srcVars, destVars, errors, revs, listed, all_commits_done,
                     mined, commits, pos, tasks, nfail, warnings, kills, service,
                     lookup, tokVars, viewVars>>

\* revs[i : i + CHUNK_SIZE] for i in range(0, len(revs), CHUNK_SIZE)
revs_groups(r) ==
  [g \in 1..((Len(r) + CHUNK_SIZE - 1) \div CHUNK_SIZE) |->
     Slice(r, (g - 1) * CHUNK_SIZE + 1,
           IF g * CHUNK_SIZE < Len(r) THEN g * CHUNK_SIZE ELSE Len(r))]

\* revs[: limit]
Truncate(r, limit) ==
  IF limit = NoLimit \/ Len(r) <= limit[1] THEN r ELSE Slice(r, 1, limit[1])

\* the rev_start after the resume step of go(): children(<original of HEAD>)
\* when the destination has a HEAD commit, the caller's otherwise (KeyError)
ResumeStart(g, log) ==
  IF Len(log) = 0 THEN g.rev_start
  ELSE [kind |-> "children", node |-> get_original_hash(log, Len(log))]

\* a chunk whose _hg_log has not returned yet
Pending == [done |-> FALSE, result |-> << >>]

\* go(), from the opening of the destination to the listing of the revisions
\* and their truncation to limit
Open ==
  /\ pc = "open"
  /\ repo_exists' = TRUE
  /\ index' = index_disk
  /\ LET rev_start == ResumeStart(gen, gitlog)
         all == get_revs(hg, rev_start, gen.rev_end)
     IN  IF \/ Len(gitlog) > 0 /\ get_original_hash(gitlog, Len(gitlog)) = NoMatch
            \/ UnknownRevision(hg, rev_start)
           THEN \* AttributeError of the resume step, or hg aborts
                /\ pc' = "idle"
                /\ ret' = "raised"
                /\ UNCHANGED <<gen, revs, listed, all_commits_done, mined>>
           ELSE /\ gen' = [gen EXCEPT !.rev_start = rev_start]
                /\ listed' = Len(all)
                /\ all_commits_done' = (gen.limit = NoLimit \/ Len(all) <= gen.limit[1])
                /\ revs' = Truncate(all, gen.limit)
                /\ mined' = [g \in 1..Len(revs_groups(Truncate(all, gen.limit))) |-> Pending]
                /\ pc' = "mine"
                /\ UNCHANGED ret
  /\ UNCHANGED <<srcVars, gitlog, origin, index_disk, workdir, errors, commits,
                 pos, tasks, runlog, nfail, warnings, toolVars>>

\* one worker thread of the pool finishes _hg_log on its chunk
MineChunk(g) ==
  /\ pc = "mine"
  /\ g \in DOMAIN mined
  /\ ~mined[g].done
  /\ mined' = [mined EXCEPT ![g] = [done |-> TRUE,
                                     result |-> hg_log(hg, revs_groups(revs)[g])]]
  /\ UNCHANGED <<srcVars, destVars, errors, pc, gen, revs, listed,
                 all_commits_done, commits, pos, tasks, ret, runlog, nfail, warnings, toolVars>>

RECURSIVE Chain(_)
Chain(ss) == IF ss = << >> THEN << >> ELSE Head(ss) \o Chain(Tail(ss))

\* list(itertools.chain.from_iterable(commits)): the results in chunk order
Collect ==
  /\ pc = "mine"
  /\ \A g \in DOMAIN mined : mined[g].done
  /\ commits' = Chain([g \in DOMAIN mined |-> mined[g].result])
  /\ pos' = 1
  /\ pc' = "loop"
  /\ UNCHANGED <<srcVars, destVars, errors, gen, revs, listed, all_commits_done,
                 mined, tasks, ret, runlog, nfail, warnings, toolVars>>

\* convert(), up to asyncio.gather: one write_file per touched path that is
\* neither empty nor binary; commit.files holds bytes
ConvertStart ==
  /\ pc = "loop"
  /\ pos <= Len(commits)
  /\ tasks' = [p \in {q \in set_modified_files(hg, commits[pos].node) :
                        q # << >> /\ ~is_binary(Bytes(q))} |->
                 [st |-> "cat", content |-> << >>, resp |-> "none"]]
  /\ pc' = "gather"
  /\ UNCHANGED <<srcVars, destVars, errors, gen, revs, listed, all_commits_done,
                 mined, commits, pos, ret, runlog, nfail, warnings, toolVars>>

\* the logger.warn lines of a removal: the file is not in the work tree, the
\* path is not in the index
removal_warnings(p) ==
  {[path |-> p, missing |-> w] :
     w \in {v \in {"file", "index entry"} :
              \/ v = "file" /\ p \notin DOMAIN workdir
              \/ v = "index entry" /\ p \notin DOMAIN index}}

\* a write_file that always takes the branch of f.write(content)
written_bytes_untokenized(g, path, content) == content

\* the bytes write_file writes to the file of a path
written_bytes(g, path, content) ==
  IF g.tokenize_enabled THEN tokenize(path, content) ELSE content

\* a write_file that removes the file of an absent path from the work tree
\* and leaves its index entry
TaskCatKeepsEntry(p) ==
  /\ pc = "gather"
  /\ p \in DOMAIN tasks
  /\ tasks[p].st = "cat"
  /\ LET content == hg_cat(hg, p, commits[pos].node)
     IN  IF content = ABSENT
           THEN /\ workdir' = Del(workdir, p)
                /\ tasks' = [tasks EXCEPT ![p].st = "done"]
                /\ warnings' = warnings \cup removal_warnings(p)
                /\ UNCHANGED index
           ELSE /\ tasks' = [tasks EXCEPT
                               ![p].st = IF gen.remove_comments_enabled
                                           THEN "strip" ELSE "write",
                               ![p].content = content]
                /\ UNCHANGED <<workdir, index, warnings, toolVars>>
  /\ UNCHANGED <<srcVars, repo_exists, gitlog, origin, index_disk, errors, pc,
                 gen, revs, listed, all_commits_done, mined, commits, pos, ret,
                 runlog, nfail, toolVars>>

\* write_file, from the answer of hg cat: a removal when the path is absent,
\* and otherwise on to the comment service or to the write
TaskCat(p) ==
  /\ pc = "gather"
  /\ p \in DOMAIN tasks
  /\ tasks[p].st = "cat"
  /\ LET content == hg_cat(hg, p, commits[pos].node)
     IN  IF content = ABSENT
           THEN /\ workdir' = Del(workdir, p)
                /\ index' = Del(index, p)
                /\ tasks' = [tasks EXCEPT ![p].st = "done"]
                /\ warnings' = warnings \cup removal_warnings(p)
           ELSE /\ tasks' = [tasks EXCEPT
                               ![p].st = IF gen.remove_comments_enabled
                                           THEN "strip" ELSE "write",
                               ![p].content = content]
                /\ UNCHANGED <<workdir, index, warnings, toolVars>>
  /\ UNCHANGED <<srcVars, repo_exists, gitlog, origin, index_disk, errors, pc,
                 gen, revs, listed, all_commits_done, mined, commits, pos, ret,
                 runlog, nfail, toolVars>>

\* hg cat fails with another CommandError: write_file raises
TaskCatError(p) ==
  /\ pc = "gather"
  /\ p \in DOMAIN tasks
  /\ tasks[p].st = "cat"
  /\ nfail < MaxFailures
  /\ nfail' = nfail + 1
  /\ tasks' = [tasks EXCEPT ![p].st = "raised"]
  /\ UNCHANGED <<srcVars, destVars, errors, pc, gen, revs, listed,
                 all_commits_done, mined, commits, pos, ret, runlog, warnings, toolVars>>

\* write_file, from the answer r of the comment service
TaskStrip(p, r) ==
  /\ pc = "gather"
  /\ p \in DOMAIN tasks
  /\ tasks[p].st = "strip"
  /\ r \in Responses(tasks[p].content)
  /\ tasks' = [tasks EXCEPT ![p].st = "write",
                            ![p].content = remove_comments(tasks[p].content, r),
                            ![p].resp = r.status]
  /\ UNCHANGED <<srcVars, destVars, errors, pc, gen, revs, listed,
                 all_commits_done, mined, commits, pos, ret, runlog, nfail, warnings, toolVars>>

\* write_file, the write of the file and index.add(path)
TaskWrite(p) ==
  /\ pc = "gather"
  /\ p \in DOMAIN tasks
  /\ tasks[p].st = "write"
  /\ workdir' = Put(workdir, p, written_bytes(gen, p, tasks[p].content))
  /\ index' = Put(index, p, written_bytes(gen, p, tasks[p].content))
  /\ tasks' = [tasks EXCEPT ![p].st = "done"]
  /\ UNCHANGED <<srcVars, repo_exists, gitlog, origin, index_disk, errors, pc,
                 gen, revs, listed, all_commits_done, mined, commits, pos, ret,
                 runlog, nfail, warnings, toolVars>>

\* a gather that returns as soon as one task has ended
Gathered_first_completed ==
  \E p \in DOMAIN tasks : tasks[p].st \in {"done", "raised"}

\* asyncio.gather(*write_file_futures, return_exceptions=True) has returned:
\* every task has ended, by returning or by raising
Gathered == \A p \in DOMAIN tasks : tasks[p].st \in {"done", "raised"}

SomeRaised == \E p \in DOMAIN tasks : tasks[p].st = "raised"

\* a convert() that takes the destination HEAD for unborn every time
new_commit_without_parent(c, tree, head) ==
  [message |-> commit_message(c.desc, c.node), tree |-> tree, parent |-> 0]

\* the commit convert() creates; parent is the position of HEAD's commit in
\* the history, 0 when HEAD is unborn (parent = [])
new_commit(c, tree, head) ==
  [message |-> commit_message(c.desc, c.node), tree |-> tree, parent |-> head]

\* convert(), after the gather: index.write(), write_tree() and create_commit
\* on HEAD; then the next commit of the loop
Seal ==
  /\ pc = "gather"
  /\ Gathered
  /\ ~SomeRaised
  /\ index_disk' = index
  /\ gitlog' = Append(gitlog, new_commit(commits[pos], index, Len(gitlog)))
  /\ origin' = Append(origin, commits[pos].node)
  /\ pos' = pos + 1
  /\ tasks' = NoTasks
  /\ pc' = "loop"
  /\ UNCHANGED <<srcVars, repo_exists, index, workdir, errors, gen, revs,
                 listed, all_commits_done, mined, commits, ret, runlog, nfail, warnings, toolVars>>

\* the line go() writes to errors.txt for a commit
error_line(c) == [node |-> c.node, parents |-> c.parents]

\* convert() raises while sealing (the index or the object database cannot be
\* written): the exception reaches the handler of go() like any other; the
\* index file is written or not, according to the call that raised
SealRaised(index_written) ==
  /\ pc = "gather"
  /\ Gathered
  /\ ~SomeRaised
  /\ nfail < MaxFailures
  /\ nfail' = nfail + 1
  /\ index_disk' = IF index_written THEN index ELSE index_disk
  /\ errors' = Append(errors, error_line(commits[pos]))
  /\ pos' = pos + 1
  /\ tasks' = NoTasks
  /\ pc' = "loop"
  /\ UNCHANGED <<srcVars, repo_exists, gitlog, origin, index, workdir, gen, revs,
                 listed, all_commits_done, mined, commits, ret, runlog, warnings, toolVars>>

\* a go() without the try/except around convert(): the exception ends the run
ConvertRaisedAborts ==
  /\ pc = "gather"
  /\ Gathered
  /\ SomeRaised
  /\ tasks' = NoTasks
  /\ pc' = "idle"
  /\ ret' = "raised"
  /\ UNCHANGED <<srcVars, destVars, errors, gen, revs, listed, all_commits_done,
                 mined, commits, pos, runlog, nfail, warnings, toolVars>>

\* convert() raises the first exception of the gather; go() logs the commit
\* to errors.txt and goes on with the next one
ConvertRaised ==
  /\ pc = "gather"
  /\ Gathered
  /\ SomeRaised
  /\ errors' = Append(errors, error_line(commits[pos]))
  /\ pos' = pos + 1
  /\ tasks' = NoTasks
  /\ pc' = "loop"
  /\ UNCHANGED <<srcVars, destVars, gen, revs, listed, all_commits_done, mined,
                 commits, ret, runlog, nfail, warnings, toolVars>>

\* go(), after the loop: return all_commits_done
Finish ==
  /\ pc = "loop"
  /\ pos > Len(commits)
  /\ pc' = "idle"
  /\ ret' = IF all_commits_done THEN "True" ELSE "False"
  /\ UNCHANGED <<srcVars, destVars, errors, gen, revs, listed, all_commits_done,
                 mined, commits, pos, tasks, runlog, nfail, warnings, toolVars>>

\* the process is killed while go() runs: what is in memory is lost, what is
\* on disk stays. During the sealing of a commit the kill comes before
\* index.write() has written the index file or between it and create_commit,
\* which updates HEAD atomically
Kill(index_written) ==
  /\ pc # "idle"
  /\ index_written => pc = "gather" /\ Gathered /\ ~SomeRaised
  /\ index_disk' = IF index_written THEN index ELSE index_disk
  /\ tasks' = NoTasks
  /\ pc' = "idle"
  /\ ret' = "killed"
  /\ kills' = kills + 1
  /\ UNCHANGED <<srcVars, repo_exists, gitlog, origin, index, workdir, errors,
                 gen, revs, listed, all_commits_done, mined, commits, pos,
                 runlog, nfail, warnings, argv, service, lookup, tokVars,
                 viewVars>>

Limits == {NoLimit} \cup {<<n>> : n \in 1..MaxLimit}

Next ==
  \/ \E e \in Revs(hg), l \in Limits, t \in BOOLEAN, rc \in BOOLEAN :
       Generate(e, l, t, rc)
  \/ Open
  \/ \E g \in DOMAIN mined : MineChunk(g)
  \/ Collect
  \/ ConvertStart
  \/ \E p \in DOMAIN tasks : TaskCat(p)
  \/ \E p \in DOMAIN tasks : TaskCatError(p)
  \/ \E p \in DOMAIN tasks : \E r \in Responses(tasks[p].content) : TaskStrip(p, r)
  \/ \E p \in DOMAIN tasks : TaskWrite(p)
  \/ Seal
  \/ \E w \in BOOLEAN : SealRaised(w)
  \/ ConvertRaised
  \/ Finish

Spec == Init /\ [][Next]_vars

\* the pipeline with kills of the process in place of backend errors
NextKill ==
  \/ \E e \in Revs(hg), l \in Limits, t \in BOOLEAN, rc \in BOOLEAN :
       Generate(e, l, t, rc)
  \/ Open
  \/ \E g \in DOMAIN mined : MineChunk(g)
  \/ Collect
  \/ ConvertStart
  \/ \E p \in DOMAIN tasks : TaskCat(p)
  \/ \E p \in DOMAIN tasks : \E r \in Responses(tasks[p].content) : TaskStrip(p, r)
  \/ \E p \in DOMAIN tasks : TaskWrite(p)
  \/ Seal
  \/ Finish
  \/ \E w \in BOOLEAN : Kill(w)

SpecKill == Init /\ [][NextKill]_vars

(***************************************************************************)
(* utils.py on its own: the lookups on a destination history whose commits *)
(* were made by convert() or by someone else                               *)
(***************************************************************************)
KeyError == [kind |-> "KeyError"]

AttributeError == [kind |-> "AttributeError"]

Returned(v) == [kind |-> "returned", value |-> v]

\* the identifier "HEAD" of the calls below; the commits of a history are
\* named by their positions 1, 2, ...
HEAD == 0

\* get_original_hash(repo, rev): the commit is looked up (KeyError when HEAD
\* is unborn or the repository has no such commit), then
\* ORIGINAL_COMMIT_REGEX.search(commit.message).group(1), which is an
\* AttributeError on the None of a message without a match
get_original_hash_call(log, rev) ==
  LET d == IF rev = HEAD THEN Len(log) ELSE rev
  IN  IF d \notin 1..Len(log) THEN KeyError
      ELSE IF get_original_hash(log, d) = NoMatch THEN AttributeError
      ELSE Returned(get_original_hash(log, d))

\* get_commit_mapping(repo_path) on a history with a HEAD commit: the walk
\* calls get_original_hash on every commit, oldest first
get_commit_mapping_call(log) ==
  IF \E d \in 1..Len(log) : get_original_hash_call(log, d).kind # "returned"
    THEN get_original_hash_call(log,
           CHOOSE d \in 1..Len(log) :
             /\ get_original_hash_call(log, d).kind # "returned"
             /\ \A e \in 1..(d - 1) : get_original_hash_call(log, e).kind = "returned").kind
    ELSE "returned"

\* the resume step of go() on an existing destination: try
\* get_original_hash(self.repo, "HEAD") ... except KeyError: pass
resume_step(log) ==
  LET r == get_original_hash_call(log, HEAD)
  IN  CASE r.kind = "returned" -> [kind |-> "children", node |-> r.value]
        [] r.kind = "KeyError" -> [kind |-> "rev_start kept"]
        [] OTHER -> r

\* a commit of someone else, and a commit whose trailer has 39 digits
MessagePlain == DescPlain

MessageShort == DescPlain \o <<"\n", "\n">> \o MARKER \o SubSeq(Node(0), 1, HashLen - 1)

LookupMessages ==
  {commit_message(DescPlain, Node(0)), commit_message(DescAt, Node(1)),
   MessagePlain, MessageShort}

MaxLookupLen == 2

LookupLogs ==
  UNION {[1..n -> {[message |-> m] : m \in LookupMessages}] : n \in 0..MaxLookupLen}

InitLookup ==
  /\ hg = HistLinear
  /\ Fresh
  /\ argv = NoArgv
  /\ TokIdle
  /\ ViewIdle

\* a call get_original_hash(repo, rev), rev being HEAD, a commit of the
\* history or an identifier the history does not have
CallGetOriginalHash(log, rev) ==
  /\ lookup = NoLookup
  /\ lookup' = [fn |-> "get_original_hash", log |-> log, rev |-> rev,
                result |-> get_original_hash_call(log, rev)]
  /\ UNCHANGED <<srcVars, destVars, runVars, errors, pc, ret, runlog, nfail,
                 warnings, kills, service, argv, tokVars, viewVars>>

CallGetCommitMapping(log) ==
  /\ lookup = NoLookup
  /\ Len(log) > 0
  /\ lookup' = [fn |-> "get_commit_mapping", log |-> log, rev |-> HEAD,
                result |-> [kind |-> get_commit_mapping_call(log)]]
  /\ UNCHANGED <<srcVars, destVars, runVars, errors, pc, ret, runlog, nfail,
                 warnings, kills, service, argv, tokVars, viewVars>>

CallResumeStep(log) ==
  /\ lookup = NoLookup
  /\ lookup' = [fn |-> "resume", log |-> log, rev |-> HEAD,
                result |-> resume_step(log)]
  /\ UNCHANGED <<srcVars, destVars, runVars, errors, pc, ret, runlog, nfail,
                 warnings, kills, service, argv, tokVars, viewVars>>

NextLookup ==
  \/ \E log \in LookupLogs, rev \in 0..(MaxLookupLen + 1) : CallGetOriginalHash(log, rev)
  \/ \E log \in LookupLogs : CallGetCommitMapping(log)
  \/ \E log \in LookupLogs : CallResumeStep(log)

SpecLookup == InitLookup /\ [][NextLookup]_vars

(***************************************************************************)
(* go() with the start-up and the end of the comment service               *)
(***************************************************************************)
\* the processes of the service that run
Running(sv) == sv.leaked + (IF sv.proc = "running" THEN 1 ELSE 0)

\* one iteration of for _ in range(7): Popen starts a process on a free port
\* and proc refers to it (the process proc referred to runs on unless it had
\* exited), or the program is not installed and go() raises
ServiceLaunch(installed) ==
  /\ pc = "open"
  /\ gen.remove_comments_enabled
  /\ service.phase = "launch"
  /\ service.launches < MaxLaunches
  /\ IF installed
       THEN /\ service' = [service EXCEPT !.launches = @ + 1, !.probes = 0,
                                          !.leaked = Running(service),
                                          !.proc = "running", !.phase = "probe"]
            /\ UNCHANGED <<pc, ret>>
       ELSE /\ service' = [service EXCEPT !.phase = "failed"]
            /\ pc' = "idle"
            /\ ret' = "raised"
  /\ UNCHANGED <<srcVars, destVars, runVars, errors, runlog, nfail, warnings,
                 kills, argv, lookup, tokVars, viewVars>>

ProbeOutcomes == {"answered", "refused", "exited"}

\* one iteration of the inner for _ in range(7): the GET of /ping is answered
\* (ready), or it fails and the process has exited (break), or it fails and
\* the process runs (sleep and probe again)
ServiceProbe(outcome) ==
  /\ pc = "open"
  /\ service.phase = "probe"
  /\ service.probes < MaxProbes
  /\ service' =
       CASE outcome = "answered" ->
              [service EXCEPT !.probes = @ + 1, !.polls = @ + 1,
                              !.ready = TRUE, !.phase = "ready"]
         [] outcome = "exited" ->
              [service EXCEPT !.probes = @ + 1, !.polls = @ + 1,
                              !.proc = "exited", !.phase = "launch"]
         [] outcome = "refused" ->
              [service EXCEPT !.probes = @ + 1, !.polls = @ + 1,
                              !.phase = IF service.probes + 1 = MaxProbes
                                          THEN "launch" ELSE "probe"]
  /\ UNCHANGED <<srcVars, destVars, runVars, errors, pc, ret, runlog, nfail,
                 warnings, kills, argv, lookup, tokVars, viewVars>>

\* a start-up whose assert has been compiled away: go() goes on without a
\* reachable service
ServiceAssert_stripped ==
  /\ pc = "open"
  /\ gen.remove_comments_enabled
  /\ service.phase = "launch"
  /\ service.launches = MaxLaunches
  /\ service' = [service EXCEPT !.phase = "ready"]
  /\ UNCHANGED <<srcVars, destVars, runVars, errors, pc, ret, runlog, nfail,
                 warnings, kills, argv, lookup, tokVars, viewVars>>

\* assert ready, after the last launch: go() raises AssertionError
ServiceAssert ==
  /\ pc = "open"
  /\ gen.remove_comments_enabled
  /\ service.phase = "launch"
  /\ service.launches = MaxLaunches
  /\ service' = [service EXCEPT !.phase = "failed"]
  /\ pc' = "idle"
  /\ ret' = "raised"
  /\ UNCHANGED <<srcVars, destVars, runVars, errors, runlog, nfail, warnings,
                 kills, argv, lookup, tokVars, viewVars>>

\* the start-up is over, or there is none to do
ServiceStarted == gen.remove_comments_enabled => service.phase = "ready"

\* go() from the opening of the destination on, once the service is ready
OpenAfterService == ServiceStarted /\ Open

\* hglib.open or the listing of the revisions raises (the source repository
\* cannot be read): the exception leaves go()
ListingRaised ==
  /\ pc = "open"
  /\ ServiceStarted
  /\ nfail < MaxFailures
  /\ nfail' = nfail + 1
  /\ repo_exists' = TRUE
  /\ pc' = "idle"
  /\ ret' = "raised"
  /\ UNCHANGED <<srcVars, gitlog, origin, index_disk, index, workdir, runVars,
                 errors, runlog, warnings, toolVars>>

\* if proc is not None: proc.terminate(), after the loop over the commits
ServiceTerminate ==
  /\ pc = "loop"
  /\ pos > Len(commits)
  /\ service.phase = "ready"
  /\ service' = [service EXCEPT !.phase = "ended",
                                !.proc = IF service.proc = "running"
                                           THEN "terminated" ELSE service.proc]
  /\ UNCHANGED <<srcVars, destVars, runVars, errors, pc, ret, runlog, nfail,
                 warnings, kills, argv, lookup, tokVars, viewVars>>

\* return all_commits_done, after proc.terminate() when there is a proc
FinishAfterTerminate ==
  /\ gen.remove_comments_enabled => service.phase = "ended"
  /\ Finish

\* one generate() on a fresh destination, without limit and tokenizing
GenerateOnce(e, rc) == runlog = << >> /\ Generate(e, NoLimit, TRUE, rc)

NextService ==
  \/ \E e \in Revs(hg), rc \in BOOLEAN : GenerateOnce(e, rc)
  \/ \E installed \in BOOLEAN : ServiceLaunch(installed)
  \/ \E outcome \in ProbeOutcomes : ServiceProbe(outcome)
  \/ ServiceAssert
  \/ OpenAfterService
  \/ ListingRaised
  \/ \E g \in DOMAIN mined : MineChunk(g)
  \/ Collect
  \/ ConvertStart
  \/ \E p \in DOMAIN tasks : TaskCat(p)
  \/ \E p \in DOMAIN tasks : TaskCatError(p)
  \/ \E p \in DOMAIN tasks : \E r \in Responses(tasks[p].content) : TaskStrip(p, r)
  \/ \E p \in DOMAIN tasks : TaskWrite(p)
  \/ Seal
  \/ \E w \in BOOLEAN : SealRaised(w)
  \/ ConvertRaised
  \/ ServiceTerminate
  \/ FinishAfterTerminate

InitService ==
  /\ hg = HistEmpty
  /\ Fresh
  /\ argv = NoArgv
  /\ TokIdle
  /\ ViewIdle

SpecService == InitService /\ [][NextService]_vars

\* the pipeline run from the command line; the comment service is never asked,
\* since no command line enables remove_comments
NextCli ==
  \/ \E f \in BOOLEAN : Main(f)
  \/ Open
  \/ \E g \in DOMAIN mined : MineChunk(g)
  \/ Collect
  \/ ConvertStart
  \/ \E p \in DOMAIN tasks : TaskCat(p)
  \/ \E p \in DOMAIN tasks : TaskCatError(p)
  \/ \E p \in DOMAIN tasks : TaskWrite(p)
  \/ Seal
  \/ \E w \in BOOLEAN : SealRaised(w)
  \/ ConvertRaised
  \/ Finish

SpecCli == Init /\ [][NextCli]_vars

(***************************************************************************)
(* The tokenizer alone: write_file's write of one content with tokenizing  *)
(* enabled, for every content over an alphabet that has word characters,   *)
(* punctuation, white space and a character that is neither                *)
(***************************************************************************)
TokAlphabet == {"a", "1", "_", " ", "\t", "\n", "\r", ";", ","}

Contents(n) == UNION {[1..k -> TokAlphabet] : k \in 0..n}

InitTok ==
  /\ hg = HistLinear
  /\ Fresh
  /\ argv = NoArgv
  /\ ViewIdle
  /\ tok_path \in {PathA, PathB}
  /\ tok_content \in Contents(MaxContentLen)
  /\ tok_written = NotWritten

\* the write of write_file with tokenize_enabled
WriteTokenized ==
  /\ tok_written = NotWritten
  /\ tok_written' = written_bytes(NoGen, tok_path, tok_content)
  /\ UNCHANGED <<srcVars, destVars, runVars, errors, pc, ret, runlog, nfail,
                 warnings, kills, service, lookup, argv, tok_path, tok_content, viewVars>>

NextTok == WriteTokenized

SpecTok == InitTok /\ [][NextTok]_vars

(***************************************************************************)
(* annotatehelper.parse_blame and viewer.html                              *)
(*                                                                         *)
(* The output of git blame --porcelain is a sequence of lines: per line of *)
(* the blamed file a header (commit, line numbers), the details of the     *)
(* commit when it is named for the first time, and the line itself after a *)
(* tab; split("\n") leaves an empty string after the last newline.         *)
(***************************************************************************)
HeaderLine(c, n) == [kind |-> "header", commit |-> c, lineno |-> n, text |-> << >>]

DetailLine(c) == [kind |-> "detail", commit |-> c, lineno |-> 0, text |-> << >>]

ContextLine(t) == [kind |-> "context", commit |-> "", lineno |-> 0, text |-> t]

EmptyLine == [kind |-> "empty", commit |-> "", lineno |-> 0, text |-> << >>]

\* blameoutput.split("\n") for a file of the lines file_lines, line k last
\* changed by commit cs[k]
RECURSIVE git_blame(_, _, _)
git_blame(file_lines, cs, k) ==
  IF k > Len(file_lines) THEN <<EmptyLine>>
  ELSE <<HeaderLine(cs[k], k)>>
         \o (IF \E j \in 1..(k - 1) : cs[j] = cs[k] THEN << >> ELSE <<DetailLine(cs[k])>>)
         \o <<ContextLine(file_lines[k])>>
         \o git_blame(file_lines, cs, k + 1)

\* the position of the first context line from i on, Len + 1 when none
RECURSIVE NextContext(_, _)
NextContext(ls, i) ==
  IF i > Len(ls) \/ ls[i].kind = "context" THEN i ELSE NextContext(ls, i + 1)

\* parse_blame: the BlameLines, from line i of the output on
RECURSIVE parse_blame(_, _)
parse_blame(ls, i) ==
  IF i > Len(ls) THEN << >>
  ELSE IF ls[i].kind = "empty" THEN parse_blame(ls, i + 1)
  ELSE LET j == NextContext(ls, i + 1)
       IN  IF j > Len(ls) THEN << >>
           ELSE <<[commit |-> ls[i].commit, context |-> ls[j].text]>>
                  \o parse_blame(ls, j + 1)

\* bytes.find(sub, from): the lowest 0-based offset >= from, or -1
find(s, sub, from) == FindFrom(s, sub, from + 1) - 1

\* a slice bound of Python, as an offset of 0..Len(s)
SliceBound(s, x) ==
  IF x < 0 THEN (IF x + Len(s) < 0 THEN 0 ELSE x + Len(s))
  ELSE IF x > Len(s) THEN Len(s) ELSE x

\* s[a:b]
PySlice(s, a, b) == Slice(s, SliceBound(s, a) + 1, SliceBound(s, b))

\* str.splitlines(), for the line boundaries \n, \r\n, \r and \f
RECURSIVE splitlines(_)
splitlines(t) ==
  IF t = << >> THEN << >>
  ELSE IF \E k \in 1..Len(t) : t[k] \in {"\n", "\r", "\f"}
    THEN LET k == CHOOSE k \in 1..Len(t) :
                    /\ t[k] \in {"\n", "\r", "\f"}
                    /\ \A m \in 1..(k - 1) : t[m] \notin {"\n", "\r", "\f"}
             n == IF t[k] = "\r" /\ k < Len(t) /\ t[k + 1] = "\n" THEN k + 2 ELSE k + 1
         IN  <<SubSeq(t, 1, k - 1)>> \o splitlines(SubSeq(t, n, Len(t)))
    ELSE <<t>>

\* for i, line in enumerate(content_lines): lines[current_line].append(...)
\* and current_line += 1 but for the last one
RECURSIVE AddFragments(_, _, _, _, _)
AddFragments(ls, cur, prev, content_lines, i) ==
  IF i > Len(content_lines) THEN [lines |-> ls, current_line |-> cur]
  ELSE AddFragments(
         Put(ls, cur, Append(IF cur \in DOMAIN ls THEN ls[cur] ELSE << >>,
                             [blame |-> prev, text |-> content_lines[i]])),
         IF i # Len(content_lines) THEN cur + 1 ELSE cur,
         prev, content_lines, i + 1)

\* the slice [a:b] of the original as a span of offsets, with its blame line
Span(s, a, b, prev) ==
  [from |-> SliceBound(s, a), to |-> SliceBound(s, b), blame |-> prev]

\* one turn of the loop over parse_blame
HtmlLoop ==
  /\ view_pc = "loop"
  /\ blame_i < Len(parse_blame(blame_output, 1))
  /\ LET blame_line == parse_blame(blame_output, 1)[blame_i + 1]
         new_start == find(original_file_content, blame_line.context, start + 1)
         from == IF start = -1 THEN 0 ELSE start
         content == PySlice(original_file_content, from, new_start)
         added == AddFragments(lines, current_line, prev_blame_line,
                               splitlines(content), 1)
     IN  /\ lines' = added.lines
         /\ current_line' = IF content # << >> /\ content[Len(content)] = "\n"
                              THEN added.current_line + 1
                              ELSE added.current_line
         /\ start' = new_start
         /\ prev_blame_line' = blame_line
         /\ found' = Append(found, new_start)
         /\ spans' = Append(spans, Span(original_file_content, from, new_start,
                                        prev_blame_line))
  /\ blame_i' = blame_i + 1
  /\ UNCHANGED <<srcVars, destVars, runVars, errors, pc, ret, runlog, nfail,
                 warnings, kills, service, lookup, argv, tokVars, original_file_content, blame_output,
                 view_pc, html_body>>

\* after the loop: the rest of the original, from start on
HtmlTail ==
  /\ view_pc = "loop"
  /\ blame_i = Len(parse_blame(blame_output, 1))
  /\ LET content == PySlice(original_file_content, start, Len(original_file_content))
         added == AddFragments(lines, current_line, prev_blame_line,
                               splitlines(content), 1)
     IN  /\ lines' = added.lines
         /\ current_line' = added.current_line
         /\ spans' = Append(spans, Span(original_file_content, start,
                                        Len(original_file_content), prev_blame_line))
  /\ view_pc' = "render"
  /\ UNCHANGED <<srcVars, destVars, runVars, errors, pc, ret, runlog, nfail,
                 warnings, kills, service, lookup, argv, tokVars, original_file_content, blame_output,
                 blame_i, start, prev_blame_line, found, html_body>>

\* the keys of lines in the order of lines.items(): they were inserted in
\* increasing order
RECURSIVE SortedKeys(_)
SortedKeys(S) ==
  IF S = {} THEN << >> ELSE <<SetMin(S)>> \o SortedKeys(S \ {SetMin(S)})

\* the body between <pre> and </pre>: per line its fragments, each plain when
\* it has no blame line and else linked to the commit of its blame line
HtmlRender ==
  /\ view_pc = "render"
  /\ html_body' = [k \in 1..Len(SortedKeys(DOMAIN lines)) |->
                     [f \in 1..Len(lines[SortedKeys(DOMAIN lines)[k]]) |->
                        [href |-> lines[SortedKeys(DOMAIN lines)[k]][f].blame.commit,
                         text |-> lines[SortedKeys(DOMAIN lines)[k]][f].text]]]
  /\ view_pc' = "done"
  /\ UNCHANGED <<srcVars, destVars, runVars, errors, pc, ret, runlog, nfail,
                 warnings, kills, service, lookup, argv, tokVars, original_file_content, blame_output,
                 blame_i, start, prev_blame_line, current_line, lines, found, spans>>

ViewAlphabet == {"a", ";", ",", " ", "\n"}

BlameCommits == {"c1", "c2"}

\* the lines of the transformed file: the tokens of the content
TransformedLines(path, content) ==
  [k \in 1..Len(finditer(content, 1, EndsWith(path, PY_SUFFIX))) |->
     Slice(content, finditer(content, 1, EndsWith(path, PY_SUFFIX))[k][1],
           finditer(content, 1, EndsWith(path, PY_SUFFIX))[k][2])]

\* html(), up to the loop: the blame of the transformed file of a path and the
\* original content of the path
InitView ==
  /\ hg = HistLinear
  /\ Fresh
  /\ argv = NoArgv
  /\ TokIdle
  /\ original_file_content \in UNION {[1..k -> ViewAlphabet] : k \in 0..MaxViewLen}
  /\ \E path \in {PathA, PathB} :
       \E cs \in [1..Len(TransformedLines(path, original_file_content)) -> BlameCommits] :
         blame_output = git_blame(TransformedLines(path, original_file_content), cs, 1)
  /\ view_pc = "loop"
  /\ blame_i = 0
  /\ start = -1
  /\ prev_blame_line = None
  /\ current_line = 0
  /\ lines = << >>
  /\ found = << >>
  /\ spans = << >>
  /\ html_body = << >>

NextView == HtmlLoop \/ HtmlTail \/ HtmlRender

SpecView == InitView /\ [][NextView]_vars

(***************************************************************************)
(* The source content the claims compare the destination with              *)
(***************************************************************************)
RECURSIVE Ancestors(_, _)
Ancestors(h, r) ==
  IF r = -1 THEN {}
  ELSE {r} \cup Ancestors(h, h[r + 1].p1) \cup Ancestors(h, h[r + 1].p2)

\* a manifest after the changes of one commit
Overlay(m, changes) ==
  [p \in (DOMAIN m \cup DOMAIN changes) \ {q \in DOMAIN changes : changes[q] = ABSENT}
     |-> IF p \in DOMAIN changes THEN changes[p] ELSE m[p]]

RECURSIVE ApplyRevs(_, _, _)
ApplyRevs(h, S, m) ==
  IF S = {} THEN m
  ELSE ApplyRevs(h, S \ {SetMin(S)}, Overlay(m, h[SetMin(S) + 1].changes))

\* the files of revision r and their content (what hg cat answers for any
\* path at r): the changes of the ancestors of r, oldest first
Manifest(h, r) == ApplyRevs(h, Ancestors(h, r), NoChange)

\* the bytes the configured transform can make of a source content: comment
\* stripping (by any answer of the service), then tokenizing, each as enabled
PossibleBytes(g, path, src) ==
  {written_bytes(g, path, c) :
     c \in IF g.remove_comments_enabled
             THEN {remove_comments(src, r) : r \in Responses(src)}
             ELSE {src}}

\* the files a commit makes convert() write or remove
TouchedPaths(h, node) ==
  {q \in set_modified_files(h, node) : q # << >> /\ ~is_binary(Bytes(q))}

\* the commits a single run over [0, rev_end] without limit replays
SingleRunCommits(h, rev_end) ==
  LET r == get_revs(h, [kind |-> "rev", rev |-> 0], rev_end)
  IN  Chain([g \in DOMAIN revs_groups(r) |-> hg_log(h, revs_groups(r)[g])])

\* the tree after the replay of cs[1..k] into a fresh destination, without
\* comment removal
RECURSIVE ReplayTree(_, _, _, _)
ReplayTree(h, g, cs, k) ==
  IF k = 0 THEN NoChange
  ELSE LET before == ReplayTree(h, g, cs, k - 1)
           files == TouchedPaths(h, cs[k].node)
           gone == {q \in files : hg_cat(h, q, cs[k].node) = ABSENT}
       IN  [p \in (DOMAIN before \cup files) \ gone |->
              IF p \in files THEN written_bytes(g, p, hg_cat(h, p, cs[k].node))
              ELSE before[p]]

TreeBefore(d) == IF d = 1 THEN NoChange ELSE gitlog[d - 1].tree

(***************************************************************************)
(* C1: a run over [0, R1] into a fresh destination followed by a run over  *)
(* [0, tip], tip after R1, no commit failing, leaves the history of a      *)
(* single run over [0, tip]: same original identifiers, messages and (with *)
(* the service out of play) file contents.                                 *)
(***************************************************************************)
C1_Premise ==
  /\ pc = "idle"
  /\ Len(runlog) = 2
  /\ ret = "True"
  /\ nfail = 0
  /\ runlog[1].limit = NoLimit
  /\ runlog[2].limit = NoLimit
  /\ runlog[1].rev_end < Tip(hg)
  /\ runlog[2].rev_end = Tip(hg)

C1_IdempotentResumption ==
  C1_Premise =>
    LET once == SingleRunCommits(hg, Tip(hg))
    IN  /\ origin = [k \in 1..Len(once) |-> once[k].node]
        /\ Len(gitlog) = Len(once)
        /\ \A k \in 1..Len(gitlog) :
             /\ gitlog[k].message = commit_message(once[k].desc, once[k].node)
             /\ ~gen.remove_comments_enabled =>
                  gitlog[k].tree = ReplayTree(hg, gen, once, k)

(***************************************************************************)
(* C2: for every destination commit D and every path of D's tree, the      *)
(* content in D is the configured transform of the source content of the   *)
(* path at the original commit named by D's trailer.                       *)
(***************************************************************************)
C2_ContentInvariant ==
  \A d \in 1..Len(gitlog) :
    LET o == RevOfNode(hg, get_original_hash(gitlog, d))
    IN  \A p \in DOMAIN gitlog[d].tree :
          /\ o # -1
          /\ p \in DOMAIN Manifest(hg, o)
          /\ gitlog[d].tree[p] \in PossibleBytes(gen, p, Manifest(hg, o)[p])

(***************************************************************************)
(* C3: the message of the destination commit created from source commit c  *)
(* is c's description without its @ characters, a blank line, the marker   *)
(* and c's identifier, and nothing else.                                   *)
(***************************************************************************)
DescOf(node) == hg[RevOfNode(hg, node) + 1].desc

C3_MessageFormat ==
  \A d \in 1..Len(gitlog) :
    gitlog[d].message =
      SelectSeq(DescOf(origin[d]), LAMBDA ch : ch # "@")
        \o <<"\n", "\n">> \o MARKER \o origin[d]

C3_Witness ==
  \E d \in 1..Len(gitlog) :
    /\ \E k \in 1..Len(DescOf(origin[d])) : DescOf(origin[d])[k] = "@"
    /\ Len(origin[d]) = HashLen

(***************************************************************************)
(* C4: after any sequence of runs the two maps of get_commit_mapping are   *)
(* inverse of each other over the whole destination history.               *)
(***************************************************************************)
C4_TrailerBijection ==
  pc = "idle" =>
    \A d \in 1..Len(gitlog) :
      original_to_transformed(gitlog)[transformed_to_original(gitlog)[d]] = d

(***************************************************************************)
(* C5: get_original_hash of the destination commit created from source     *)
(* commit c returns c's identifier, whatever c's description.              *)
(***************************************************************************)
C5_TrailerExtractable ==
  \A d \in 1..Len(gitlog) : get_original_hash(gitlog, d) = origin[d]

(***************************************************************************)
(* C6: generate returns false exactly when limit is set and more than      *)
(* limit revisions are listed, and then only the first limit listed        *)
(* revisions are replayed; otherwise it returns true and all the listed    *)
(* revisions are replayed.                                                 *)
(***************************************************************************)
C6_LimitAndCompletion ==
  (pc = "idle" /\ ret \in {"True", "False"}) =>
    LET all == get_revs(hg, gen.rev_start, gen.rev_end)
        over == gen.limit # NoLimit /\ Len(all) > gen.limit[1]
        replayed == [k \in 1..Len(commits) |-> commits[k].node]
    IN  /\ ret = "False" <=> over
        /\ over => replayed = Slice(all, 1, gen.limit[1])
        /\ ~over => \A k \in 1..Len(all) : \E j \in 1..Len(replayed) : replayed[j] = all[k]

(***************************************************************************)
(* C7: when the conversion of a source commit raises, the run goes on:     *)
(* exactly one line (commit id, parents) is appended to errors.txt, no     *)
(* destination commit is created and HEAD stays, and the loop moves to the *)
(* next source commit. A conversion that does not raise appends no line.   *)
(***************************************************************************)
C7_Isolated ==
  /\ errors' = Append(errors, [node |-> commits[pos].node,
                               parents |-> <<ParentNode(hg, RevOfNode(hg, commits[pos].node))>>])
  /\ gitlog' = gitlog
  /\ pc' = "loop"
  /\ pos' = pos + 1
  /\ ret' = "running"

C7_FailureIsolation ==
  [][(pc = "gather" /\ Gathered /\ pc' # "gather") =>
       /\ SomeRaised => C7_Isolated
       /\ C7_Isolated \/ (errors' = errors /\ Len(gitlog') = Len(gitlog) + 1)]_vars

C7_Witness ==
  /\ pc = "gather"
  /\ Len(errors) > runlog[Len(runlog)].nerr
  /\ Len(gitlog) = runlog[Len(runlog)].head
  /\ pos > 1

(***************************************************************************)
(* C8: a touched path that is absent at the source commit is removed: the  *)
(* destination commit created for the source commit has no such path in    *)
(* its tree; and no write_file raises unless the backend failed, also when *)
(* the path to remove is in neither the work tree nor the index.           *)
(***************************************************************************)
C8_DeletionFidelity ==
  /\ \A d \in 1..Len(gitlog) :
       \A p \in set_modified_files(hg, origin[d]) :
         (p # << >> /\ hg_cat(hg, p, origin[d]) = ABSENT) => p \notin DOMAIN gitlog[d].tree
  /\ (\E p \in DOMAIN tasks : tasks[p].st = "raised") => nfail > 0

C8_Witness ==
  \E d \in 2..Len(gitlog) :
    /\ \E p \in DOMAIN gitlog[d - 1].tree :
         /\ p \in set_modified_files(hg, origin[d])
         /\ hg_cat(hg, p, origin[d]) = ABSENT
         /\ p \notin DOMAIN gitlog[d].tree
    /\ \E q \in set_modified_files(hg, origin[d]) :
         /\ hg_cat(hg, q, origin[d]) = ABSENT
         /\ [path |-> q, missing |-> "file"] \in warnings
         /\ [path |-> q, missing |-> "index entry"] \in warnings

(***************************************************************************)
(* C9: a source commit that copies A to B yields a destination commit that *)
(* adds only B, with the transform of A's content, and leaves A unchanged; *)
(* one that renames A to B yields a destination commit that adds B and     *)
(* removes A.                                                              *)
(***************************************************************************)
C9_CopyRenameFidelity ==
  \A d \in 1..Len(gitlog) :
    LET r == RevOfNode(hg, origin[d])
        tree == gitlog[d].tree
        before == TreeBefore(d)
    IN  \A cp \in hg[r + 1].copies :
          IF cp[1] \in DOMAIN hg[r + 1].changes
            THEN /\ cp[2] \in DOMAIN tree
                 /\ cp[2] \notin DOMAIN before
                 /\ cp[1] \notin DOMAIN tree
            ELSE /\ DOMAIN before \subseteq DOMAIN tree
                 /\ {p \in DOMAIN tree : p \notin DOMAIN before \/ tree[p] # before[p]}
                      = {cp[2]}
                 /\ tree[cp[2]] \in PossibleBytes(gen, cp[2], Manifest(hg, r)[cp[1]])

(***************************************************************************)
(* C10: the bytes staged for a written path are the content of the path at *)
(* the commit, comment-stripped if enabled (the service's body on a 200,   *)
(* the content itself otherwise), then tokenized if enabled.               *)
(***************************************************************************)
C10_Expected(p) ==
  LET src == hg_cat(hg, p, commits[pos].node)
      stripped == IF gen.remove_comments_enabled /\ tasks[p].resp = "200"
                    THEN service_comment(src) ELSE src
  IN  IF gen.tokenize_enabled
        THEN JoinLines(stripped, finditer(stripped, 1, EndsWith(p, PY_SUFFIX)))
        ELSE stripped

C10_Written(p) ==
  /\ pc = "gather"
  /\ tasks[p].st = "done"
  /\ hg_cat(hg, p, commits[pos].node) # ABSENT

C10_TransformChain ==
  \A p \in DOMAIN tasks :
    C10_Written(p) =>
      /\ p \in DOMAIN index /\ index[p] = C10_Expected(p)
      /\ p \in DOMAIN workdir /\ workdir[p] = C10_Expected(p)
      /\ gen.remove_comments_enabled <=> tasks[p].resp # "none"

C10_Witness ==
  \E p \in DOMAIN tasks :
    /\ C10_Written(p)
    /\ gen.tokenize_enabled
    /\ tasks[p].resp = "200"
    /\ service_comment(hg_cat(hg, p, commits[pos].node)) # hg_cat(hg, p, commits[pos].node)
    /\ index[p] # tokenize(p, hg_cat(hg, p, commits[pos].node))
(***************************************************************************)
(* C11: for a path that does not end in .py the tokenized output is, in    *)
(* content order, one newline-terminated line per maximal run of word      *)
(* characters and one per punctuation character; every other character     *)
(* gives no output.                                                        *)
(***************************************************************************)
\* the last position of the maximal run of word characters that starts at i
WordRunLast(c, i) ==
  CHOOSE j \in i..Len(c) :
    /\ \A k \in i..j : c[k] \in WordChars
    /\ j = Len(c) \/ c[j + 1] \notin WordChars

\* the lines the claim describes, for the content from position i on
RECURSIVE WordsAndPunctuation(_, _)
WordsAndPunctuation(c, i) ==
  IF i > Len(c) THEN << >>
  ELSE IF c[i] \in POSSIBLE_TOKENS
    THEN <<c[i], "\n">> \o WordsAndPunctuation(c, i + 1)
  ELSE IF c[i] \in WordChars /\ (i = 1 \/ c[i - 1] \notin WordChars)
    THEN SubSeq(c, i, WordRunLast(c, i)) \o <<"\n">>
           \o WordsAndPunctuation(c, WordRunLast(c, i) + 1)
  ELSE WordsAndPunctuation(c, i + 1)

C11_GeneralMode ==
  (tok_written # NotWritten /\ ~EndsWith(tok_path, PY_SUFFIX)) =>
    tok_written = WordsAndPunctuation(tok_content, 1)

C11_Witness ==
  /\ tok_written # NotWritten
  /\ ~EndsWith(tok_path, PY_SUFFIX)
  /\ tok_content = <<"a", "1", ";", ",">>
  /\ tok_written = <<"a", "1", "\n", ";", "\n">>
(***************************************************************************)
(* C12: for a path that ends in .py the output is the general-mode output  *)
(* plus, for each line that is not blank and begins with a run of spaces   *)
(* and tabs, one line holding that run, before the other tokens of the     *)
(* line; a line of white space only gives no output.                       *)
(***************************************************************************)
\* the physical lines of a content, as Python defines them: the texts between
\* its line terminators \n, \r\n and \r
RECURSIVE PhysicalLines(_)
PhysicalLines(c) ==
  IF \E k \in 1..Len(c) : c[k] \in {"\n", "\r"}
    THEN LET k == CHOOSE k \in 1..Len(c) :
                    c[k] \in {"\n", "\r"} /\ \A m \in 1..(k - 1) : c[m] \notin {"\n", "\r"}
             n == IF c[k] = "\r" /\ k < Len(c) /\ c[k + 1] = "\n" THEN k + 2 ELSE k + 1
         IN  <<SubSeq(c, 1, k - 1)>> \o PhysicalLines(SubSeq(c, n, Len(c)))
    ELSE <<c>>

\* the run of spaces and tabs a line begins with
LeadingRun(l) ==
  SubSeq(l, 1, CHOOSE j \in 0..Len(l) :
                 /\ \A k \in 1..j : l[k] \in {" ", "\t"}
                 /\ j = Len(l) \/ l[j + 1] \notin {" ", "\t"})

IsBlank(l) == \A k \in 1..Len(l) : l[k] \in WhitespaceChars

\* the output the claim describes for one line
IndentedLine(l) ==
  (IF ~IsBlank(l) /\ LeadingRun(l) # << >> THEN LeadingRun(l) \o <<"\n">> ELSE << >>)
    \o WordsAndPunctuation(l, 1)

C12_IndentationMode ==
  (tok_written # NotWritten /\ EndsWith(tok_path, PY_SUFFIX)) =>
    tok_written = Chain([k \in 1..Len(PhysicalLines(tok_content)) |->
                           IndentedLine(PhysicalLines(tok_content)[k])])
(***************************************************************************)
(* C13: a touched path whose extension, compared case-insensitively, is in *)
(* the binary-extension set is neither fetched, written nor staged, and no *)
(* destination tree contains such a path.                                  *)
(***************************************************************************)
\* the extension of the path is one of the binary extensions
HasBinaryExtension(p) == Str(Lower(splitext(p))) \in BINARY_EXTENSIONS

C13_BinarySkipped ==
  /\ \A p \in DOMAIN tasks \cup DOMAIN index \cup DOMAIN workdir :
       ~HasBinaryExtension(p)
  /\ \A d \in 1..Len(gitlog) : \A p \in DOMAIN gitlog[d].tree :
       ~HasBinaryExtension(p)
(***************************************************************************)
(* C14: a generate on a destination whose history already has every commit *)
(* of the requested range creates no destination commit: the destination   *)
(* history and HEAD stay as they were when the run started.                *)
(***************************************************************************)
\* the second run was started on a destination that had a commit for every
\* revision listed for its range
C14_Processed ==
  /\ Len(runlog) = 2
  /\ LET requested == get_revs(hg, [kind |-> "rev", rev |-> 0], runlog[2].rev_end)
     IN  \A k \in 1..Len(requested) :
           \E d \in 1..runlog[2].head : origin[d] = requested[k]

C14_RerunNoOp == C14_Processed => Len(gitlog) = runlog[2].head
(***************************************************************************)
(* C15: remove_comments returns the body of the answer when the status is  *)
(* 200 and its input unchanged on 204, 404, any other status and a failed  *)
(* connection; in none of these cases does the write_file raise.           *)
(***************************************************************************)
\* the body of the 200 answer of the service for a content
Body200(src) == (CHOOSE r \in Responses(src) : r.status = "200").text

C16_ForwardOnly ==
  \A k \in 2..Len(found) :
    found[k] >= found[k - 1] + Len(parse_blame(blame_output, 1)[k - 1].context)

(***************************************************************************)
(* C17: the bytes of each matched token are attributed to the commit of    *)
(* the token's blame line, the bytes between the end of a match and the    *)
(* start of the next to the commit of the earlier token, and the bytes     *)
(* before the first match to no commit.                                    *)
(***************************************************************************)
\* the commits the byte at offset o of the original is attributed to
AttributedTo(o) ==
  {spans[i].blame.commit :
     i \in {j \in 1..Len(spans) : spans[j].from <= o /\ o < spans[j].to}}

C17_Attribution ==
  view_pc \in {"render", "done"} =>
    LET blame == parse_blame(blame_output, 1)
    IN  /\ \A k \in 1..Len(blame) :
             \A o \in found[k]..(found[k] + Len(blame[k].context) - 1) :
               AttributedTo(o) = {blame[k].commit}
        /\ \A k \in 1..(Len(blame) - 1) :
             \A o \in (found[k] + Len(blame[k].context))..(found[k + 1] - 1) :
               AttributedTo(o) = {blame[k].commit}
        /\ blame # << >> =>
             \A o \in 0..(found[1] - 1) : AttributedTo(o) = {None.commit}

(***************************************************************************)
(* C18: when the blame has no lines, viewer.html raises no error and the   *)
(* body is empty: no fragment of text is emitted, whatever the original    *)
(* content.                                                                *)
(***************************************************************************)
C18_EmptyBlame ==
  (view_pc = "done" /\ parse_blame(blame_output, 1) = << >>) =>
    \A k \in 1..Len(html_body) : \A f \in 1..Len(html_body[k]) :
      html_body[k][f].text = << >>
(***************************************************************************)
(* C19: the generate command given only the two paths runs the pipeline    *)
(* with tokenizing enabled, comment removal disabled, no limit, start      *)
(* revision 0 and end revision tip; --remove-comments enables comment      *)
(* removal and changes no other option.                                    *)
(***************************************************************************)
C19_CliDefaults ==
  argv.given =>
    /\ gen.tokenize_enabled
    /\ gen.remove_comments_enabled = argv.remove_comments
    /\ gen.limit = NoLimit
    /\ gen.rev_end = Tip(hg)
    /\ pc = "open" => gen.rev_start = [kind |-> "rev", rev |-> 0]
\* the tokens of a written file: its lines, each ended by "\n"
RECURSIVE EmittedTokens(_, _)
EmittedTokens(w, from) ==
  IF from > Len(w) THEN << >>
  ELSE LET nl == CHOOSE j \in from..Len(w) + 1 :
                   /\ j = Len(w) + 1 \/ w[j] = "\n"
                   /\ \A k \in from..j - 1 : w[k] # "\n"
       IN  <<Slice(w, from, nl - 1)>> \o EmittedTokens(w, nl + 1)

\* off places the tokens t in the content c as the claim says: each token at
\* its offset, one after the other without overlap, nothing but separators
\* outside them
OrderedOccurrences(c, t, off) ==
  /\ \A k \in 1..Len(t) :
       /\ Len(t[k]) > 0
       /\ off[k] + Len(t[k]) - 1 <= Len(c)
       /\ SubSeq(c, off[k], off[k] + Len(t[k]) - 1) = t[k]
  /\ \A k \in 1..Len(t) - 1 :
       /\ off[k] < off[k + 1]
       /\ off[k] + Len(t[k]) <= off[k + 1]
  /\ \A i \in 1..Len(c) :
       (\A k \in 1..Len(t) : i < off[k] \/ i >= off[k] + Len(t[k]))
         => c[i] \notin WordChars \cup POSSIBLE_TOKENS

(***************************************************************************)
(* C20: the tokens written for a content, in output order, occur in the    *)
(* content as pairwise non-overlapping substrings at strictly increasing   *)
(* offsets, and every byte of the content outside these occurrences is     *)
(* neither a word character nor a punctuation-set character.               *)
(***************************************************************************)
C20_OrderPreserved ==
  tok_written # NotWritten =>
    LET t == EmittedTokens(tok_written, 1)
    IN  \E off \in [1..Len(t) -> 1..Len(tok_content)] :
          OrderedOccurrences(tok_content, t, off)

\* an indented Python line: an indentation token, a word, a separator between
\* the word and a punctuation token
C20_Witness ==
  /\ tok_path = PathB
  /\ tok_content = <<" ", "a", ",", ";">>
  /\ tok_written = <<" ", "\n", "a", "\n", ";", "\n">>
(***************************************************************************)
(* C21: every successful conversion of a source commit, one that touches   *)
(* no writable path included, creates exactly one destination commit whose *)
(* sole parent is the HEAD of that moment (none when the destination has   *)
(* no commit) and makes it HEAD before the next source commit is           *)
(* processed; the destination history is always one linear chain.          *)
(***************************************************************************)
\* a step that ends the conversion of a commit without a line in errors.txt
ConversionSucceeds == pc = "gather" /\ pc' = "loop" /\ errors' = errors

\* the history is the old one and, on top of the old HEAD, one new commit
OneCommitOnHead ==
  /\ Len(gitlog') = Len(gitlog) + 1
  /\ SubSeq(gitlog', 1, Len(gitlog)) = gitlog
  /\ gitlog'[Len(gitlog')].parent = Len(gitlog)

LinearChain == \A d \in 1..Len(gitlog) : gitlog[d].parent = d - 1

C21_LinearHistory ==
  /\ [][/\ ConversionSucceeds => OneCommitOnHead /\ pos' = pos + 1
        /\ gitlog' # gitlog => ConversionSucceeds]_vars
  /\ []LinearChain

\* the second run converts a commit that touches no file, on top of the
\* commit the first run made
C21_Witness ==
  /\ hg = HistEmpty
  /\ Len(runlog) = 2
  /\ Len(gitlog) = 2
  /\ runlog[2].head = 1
  /\ origin = <<Node(0), Node(1)>>
  /\ gitlog[2].tree = gitlog[1].tree
  /\ gitlog[2].parent = 1
(***************************************************************************)
(* C22: whatever the order in which the worker threads finish mining their *)
(* chunks, the commits are replayed in the oldest-to-newest order of the   *)
(* listed revisions; the original identifiers read along the destination   *)
(* history are always in source order.                                     *)
(***************************************************************************)
\* the revision numbers of a sequence of identifiers go up
OldestToNewest(nodes) ==
  \A k \in 1..Len(nodes) - 1 :
    RevOfNode(hg, nodes[k]) < RevOfNode(hg, nodes[k + 1])

C22_ReplayOrder ==
  /\ pc \in {"loop", "gather"} =>
       OldestToNewest([k \in 1..Len(commits) |-> commits[k].node])
  /\ OldestToNewest(origin)
(***************************************************************************)
(* C23: a run killed at any point, the middle of a conversion included,    *)
(* leaves the destination history at its last sealed commit, and a         *)
(* following run over the same range produces the destination history of   *)
(* a run that was never interrupted.                                       *)
(***************************************************************************)
\* a killed first run, then a completed run with the same arguments
C23_Premise ==
  /\ pc = "idle"
  /\ Len(runlog) = 2
  /\ kills = 1
  /\ ret = "True"
  /\ runlog[1].limit = NoLimit
  /\ runlog[2].limit = NoLimit
  /\ runlog[1].rev_end = runlog[2].rev_end

C23_SameAsUninterrupted ==
  C23_Premise =>
    LET once == SingleRunCommits(hg, gen.rev_end)
    IN  /\ origin = [k \in 1..Len(once) |-> once[k].node]
        /\ Len(gitlog) = Len(once)
        /\ \A k \in 1..Len(gitlog) :
             /\ gitlog[k].message = commit_message(once[k].desc, once[k].node)
             /\ ~gen.remove_comments_enabled =>
                  gitlog[k].tree = ReplayTree(hg, gen, once, k)

C23_CrashSafety ==
  /\ [][kills' # kills => gitlog' = gitlog]_vars
  /\ []C23_SameAsUninterrupted
(***************************************************************************)
(* C24: an exception raised while sealing a destination commit (writing    *)
(* the index, writing the tree, creating the commit) is not handled as a   *)
(* per-commit failure: it fails the whole run, and no later source commit  *)
(* is processed in that run.                                               *)
(***************************************************************************)
\* a step in which convert(), all its tasks done and none raised, ends
\* without a new commit
SealingRaises ==
  /\ pc = "gather"
  /\ Gathered
  /\ ~SomeRaised
  /\ pc' # "gather"
  /\ gitlog' = gitlog

C24_SealingFailsRun ==
  [][SealingRaises => pc' = "idle" /\ ret' = "raised" /\ errors' = errors]_vars
(***************************************************************************)
(* C25: a destination commit is sealed only after every per-file task of   *)
(* its source commit has completed, and it is not sealed at all when any   *)
(* of those tasks raised; the error of a failing task reaches the          *)
(* per-commit error handler.                                               *)
(***************************************************************************)
C25_JoinBarrier ==
  [][/\ gitlog' # gitlog =>
          \A p \in DOMAIN tasks : tasks[p].st = "done"
     /\ (pc = "gather" /\ SomeRaised) =>
          /\ gitlog' = gitlog
          /\ pc' # "gather" =>
               /\ Gathered
               /\ errors' = Append(errors, error_line(commits[pos]))]_vars

\* a commit with two paths: the task of one raised, the task of the other
\* went on to stage its file; no commit was sealed and the handler logged it
C25_Witness ==
  /\ hg = HistCopy
  /\ pc = "loop"
  /\ pos = 2
  /\ gitlog = << >>
  /\ errors = <<error_line(commits[1])>>
  /\ DOMAIN index = {PathA}
(***************************************************************************)
(* C26: with comment removal enabled the start-up polling ends after a     *)
(* bounded number of attempts (at most 7 launches of the service and at    *)
(* most 7 readiness probes per launch); if the service never becomes       *)
(* reachable the run fails with an error before the destination repository *)
(* is opened or created and before any source revision is listed.          *)
(***************************************************************************)
C26_BoundedStartup ==
  /\ service.launches <= 7
  /\ service.probes <= 7
  /\ service.polls <= 7 * 7
  /\ (gen.remove_comments_enabled /\ ~service.ready) =>
       /\ ~repo_exists
       /\ listed = 0
       /\ revs = << >>
       /\ gitlog = << >>
       /\ (service.phase = "launch" /\ service.launches = 7) => pc = "open"
       /\ pc = "idle" /\ runlog # << >> => ret = "raised"

\* seven launches, each probed seven times with no answer: the run has
\* raised and nothing was opened or listed
C26_Witness ==
  /\ gen.remove_comments_enabled
  /\ service.launches = 7
  /\ service.polls = 7 * 7
  /\ ~service.ready
  /\ service.phase = "failed"
  /\ pc = "idle"
  /\ ret = "raised"
  /\ ~repo_exists
(***************************************************************************)
(* C27: the comment service is started once per run, and when go() ends,   *)
(* whether it returns or raises (service never reachable, source listing   *)
(* fails, any other error), every service process the run launched has     *)
(* been terminated.                                                        *)
(***************************************************************************)
C27_ScopedService ==
  (pc = "idle" /\ runlog # << >>) => Running(service) = 0
(***************************************************************************)
(* C28: a caller that re-invokes generate on the same destination with a   *)
(* fixed limit of at least 1 until it returns true stops after finitely    *)
(* many invocations, and then the requested range has been fully           *)
(* processed; every invocation that returns false has moved the resume     *)
(* point forward.                                                          *)
(***************************************************************************)
\* the runs so far are the invocations of such a caller: the same rev_end and
\* the same limit in each
LoopingCaller ==
  /\ runlog # << >>
  /\ runlog[1].limit # NoLimit
  /\ \A k \in 1..Len(runlog) :
       runlog[k].rev_end = runlog[1].rev_end /\ runlog[k].limit = runlog[1].limit

\* the revision the next run resumes after, -1 when it starts from rev_start
ResumePoint(log) ==
  IF Len(log) = 0 THEN -1 ELSE RevOfNode(hg, get_original_hash(log, Len(log)))

\* every revision of the listing of [0, rev_end] was replayed or logged
FullyProcessed(log, errs, rev_end) ==
  LET all == get_revs(hg, [kind |-> "rev", rev |-> 0], rev_end)
  IN  \A k \in 1..Len(all) :
        \/ \E d \in 1..Len(log) : get_original_hash(log, d) = all[k]
        \/ \E i \in 1..Len(errs) : errs[i].node = all[k]

C28_LoopUntilDone ==
  [][(LoopingCaller /\ pc = "loop" /\ pc' = "idle") =>
       /\ ret' = "False" =>
            ResumePoint(gitlog') > ResumePoint(SubSeq(gitlog', 1, runlog[Len(runlog)].head))
       /\ ret' = "True" => FullyProcessed(gitlog', errors', gen.rev_end)]_vars
(***************************************************************************)
(* C29: get_original_hash and get_commit_mapping fail with a lookup        *)
(* (not-found) error both when the requested identifier is not in the      *)
(* destination history and when the commit's message has no well-formed    *)
(* trailer; it is this lookup error that the resume step of the generator  *)
(* catches to fall back to the caller's rev_start.                         *)
(***************************************************************************)
WellFormedTrailer(message) ==
  \E i \in 1..Len(message) : TrailerMatchAt(message, i)

\* the commit the call is about is not in the history, or has no trailer
NothingToLookUp(log, rev) ==
  LET d == IF rev = HEAD THEN Len(log) ELSE rev
  IN  d \notin 1..Len(log) \/ ~WellFormedTrailer(log[d].message)

C29_LookupFailures ==
  /\ lookup.fn = "get_original_hash" =>
       (NothingToLookUp(lookup.log, lookup.rev) => lookup.result.kind = "KeyError")
  /\ lookup.fn = "get_commit_mapping" =>
       ((\E d \in 1..Len(lookup.log) : NothingToLookUp(lookup.log, d))
          => lookup.result.kind = "KeyError")
  /\ lookup.fn = "resume" =>
       (NothingToLookUp(lookup.log, HEAD) => lookup.result.kind = "rev_start kept")
(***************************************************************************)
(* C30: when the conversion of a source commit fails after some of its     *)
(* per-file tasks already wrote or staged files, nothing of it is carried  *)
(* into later destination commits: the tree of the next sealed commit      *)
(* differs from the tree of the previously sealed one only on paths        *)
(* touched by that next source commit.                                     *)
(***************************************************************************)
\* the paths on which two trees differ
TreeDiff(t, u) ==
  {p \in DOMAIN t \cup DOMAIN u :
     \/ p \notin DOMAIN t
     \/ p \notin DOMAIN u
     \/ t[p] # u[p]}

C30_NoResidue ==
  \A d \in 1..Len(gitlog) :
    TreeDiff(TreeBefore(d), gitlog[d].tree) \subseteq TouchedPaths(hg, origin[d])
(***************************************************************************)
(* C31: the commits replayed in one run are exactly the revisions returned *)
(* by the revision listing after truncation to limit: the chunked mining   *)
(* yields no revision outside the list (no merge commit, no commit of      *)
(* another branch numbered inside a chunk), so a run never creates more    *)
(* than limit destination commits.                                         *)
(***************************************************************************)
C31_MinedIsListed ==
  /\ pc \in {"loop", "gather"} =>
       [k \in 1..Len(commits) |-> commits[k].node] = revs
  /\ (runlog # << >> /\ gen.limit # NoLimit) =>
       Len(gitlog) - runlog[Len(runlog)].head <= gen.limit[1]

(***************************************************************************)
(* C32: the rendering of viewer.html covers the original exactly once:     *)
(* every byte of the original content belongs to exactly one fragment, the *)
(* fragments are in content order, and the fragments of the output lines,  *)
(* concatenated, are the physical lines of the original, one output line   *)
(* per physical line.                                                      *)
(***************************************************************************)
\* the fragments of one output line, concatenated
RECURSIVE LineText(_, _)
LineText(frags, i) ==
  IF i > Len(frags) THEN << >> ELSE frags[i].text \o LineText(frags, i + 1)

\* the spans that hold the byte at offset o of the original
SpansOf(o) == {j \in 1..Len(spans) : spans[j].from <= o /\ o < spans[j].to}

EveryByteOnce ==
  \A o \in 0..(Len(original_file_content) - 1) : Cardinality(SpansOf(o)) = 1

InContentOrder ==
  \A j \in 2..Len(spans) : spans[j - 1].to <= spans[j].from

OneLinePerPhysicalLine ==
  [k \in 1..Len(html_body) |-> LineText(html_body[k], 1)]
    = splitlines(original_file_content)

C32_CoversExactlyOnce ==
  view_pc = "done" => EveryByteOnce /\ InContentOrder /\ OneLinePerPhysicalLine
====
